---------------------------- MODULE Spec2Model ----------------------------
(***************************************************************************)
(* PDF -> slide deck converter (converter.py) and its Flask front end      *)
(* (app.py).                                                               *)
(*                                                                         *)
(* Two specifications share this module:                                   *)
(*   Spec     one call PDFToPowerPointConverter.convert(pdf_path,          *)
(*            output_path, max_pages=30), statement by statement;          *)
(*   AppSpec  concurrent POST /upload requests and GET / cleanup sweeps    *)
(*            over the shared upload and output folders.                   *)
(*                                                                         *)
(* Text is modelled as Python str: a sequence of one-character strings.    *)
(***************************************************************************)
EXTENDS Integers, Sequences, FiniteSets, TLC

VARIABLES
  \* ---- convert() ----
  pdf,              \* the file at pdf_path (input)
  pc,               \* position inside convert()
  temp_dir,         \* self.temp_dir ("None" or a directory name)
  dirs,             \* temporary directories that exist on disk
  page_count,       \* local page_count
  last_page,        \* local last_page
  texts,            \* extract_text_from_pdf: local texts
  pages_to_process, \* extract_text_from_pdf: local pages_to_process
  ext_i,            \* extract_text_from_pdf: loop index i (0-based)
  pdf_texts,        \* local pdf_texts
  images,           \* local images
  i,                \* loop index i of the slide loop (0-based)
  prs,              \* prs.slides, in order
  output,           \* the file at output_path
  result,           \* value returned by convert: "none" until it returns,
                    \* then "True" or "False"
  log,              \* logging records emitted (tags)
  escaped,          \* an exception propagated out of convert
  faulted,          \* a call raised into one of convert's except clauses
  \* ---- app.py ----
  now,              \* time.time()
  ticks,            \* number of clock advances so far
  files,            \* files in the upload and output folders
  tmpdirs,          \* temp directories made by requests, still on disk
  usedIds,          \* uuid4 values already handed out
  req,              \* per upload request: its locals and position
  sweep             \* the GET / handler running cleanup_old_files

convVars == << pdf, pc, temp_dir, dirs, page_count, last_page, texts,
               pages_to_process, ext_i, pdf_texts, images, i, prs, output,
               result, log, escaped, faulted >>
appVars  == << now, ticks, files, tmpdirs, usedIds, req, sweep >>
vars     == << pdf, pc, temp_dir, dirs, page_count, last_page, texts,
               pages_to_process, ext_i, pdf_texts, images, i, prs, output,
               result, log, escaped, faulted,
               now, ticks, files, tmpdirs, usedIds, req, sweep >>

---------------------------------------------------------------------------
(* Program constants *)

\* max_pages=30: the default of convert and the value upload_file passes
MAX_PAGES == 30
\* len(page_text.strip()) < 20
MIN_TEXT_LEN == 20
\* current_time - mtime > 3600
SWEEP_AGE == 3600

(* Bounds of the model *)

\* PDFs of 0..MaxSmallPages pages are drawn, and
MaxSmallPages == 3
\* PDFs of MAX_PAGES..MAX_PAGES+ExtraPages pages
ExtraPages == 1
\* the clock advances at most MaxTicks times
MaxTicks == 1

---------------------------------------------------------------------------
(* Python str operations, on sequences of characters *)

Whitespace == {" ", "\n", "\t"}

Min(a, b) == IF a < b THEN a ELSE b

\* c repeated n times
Rep(c, n) == [k \in 1..n |-> c]

\* s[a:b] for 1-based inclusive bounds
Slice(s, a, b) == IF a > b THEN << >> ELSE SubSeq(s, a, b)

\* str.strip(): s without its leading and trailing whitespace
Strip(s) ==
  LET keep == { k \in 1..Len(s) : s[k] \notin Whitespace }
  IN  IF keep = {} THEN << >>
      ELSE SubSeq(s, CHOOSE k \in keep : \A m \in keep : k <= m,
                     CHOOSE k \in keep : \A m \in keep : k >= m)

\* str.startswith(p)
StartsWith(s, p) == Len(s) >= Len(p) /\ SubSeq(s, 1, Len(p)) = p

\* str.replace('\n\n', '\n'): left to right, non-overlapping
RECURSIVE ReplaceDoubleNewline(_)
ReplaceDoubleNewline(s) ==
  IF Len(s) < 2 THEN s
  ELSE IF s[1] = "\n" /\ s[2] = "\n"
       THEN << "\n" >> \o ReplaceDoubleNewline(SubSeq(s, 3, Len(s)))
       ELSE << s[1] >> \o ReplaceDoubleNewline(Tail(s))

\* str.split(sep): the segments between occurrences of the character sep
Split(s, sep) ==
  LET at     == { k \in 1..Len(s) : s[k] = sep }
      n      == Cardinality(at)
      pos(j) == IF j = 0 THEN 0
                ELSE IF j = n + 1 THEN Len(s) + 1
                ELSE CHOOSE k \in at : Cardinality({ m \in at : m <= k }) = j
  IN  [j \in 1..(n + 1) |-> Slice(s, pos(j - 1) + 1, pos(j) - 1)]

Digit(d) ==
  CASE d = 0 -> "0" [] d = 1 -> "1" [] d = 2 -> "2" [] d = 3 -> "3"
    [] d = 4 -> "4" [] d = 5 -> "5" [] d = 6 -> "6" [] d = 7 -> "7"
    [] d = 8 -> "8" [] d = 9 -> "9"

\* str(n) for n >= 0, as an f-string renders it
RECURSIVE IntToStr(_)
IntToStr(n) ==
  IF n < 10 THEN << Digit(n) >>
  ELSE IntToStr(n \div 10) \o << Digit(n % 10) >>

---------------------------------------------------------------------------
(* String literals of converter.py *)

EDIT_PREFIX ==
  << "[", "E", "d", "i", "t", " ", "t", "h", "i", "s", " ", "t", "e", "x", "t" >>

PLACEHOLDER_MID ==
  << " ", "-", " ", "C", "o", "n", "t", "e", "n", "t", " ", "f", "r", "o", "m",
     " ", "p", "a", "g", "e", " " >>

PLACEHOLDER_TAIL ==
  << "]", "\n", "\n", "C", "l", "i", "c", "k", " ", "h", "e", "r", "e", " ", "t", "o",
     " ", "a", "d", "d", " ", "y", "o", "u", "r", " ", "c", "o", "n", "t", "e", "n",
     "t", ".", " ", "Y", "o", "u", " ", "c", "a", "n", " ", "r", "e", "p", "l", "a",
     "c", "e", " ", "t", "h", "i", "s", " ", "p", "l", "a", "c", "e", "h", "o", "l",
     "d", "e", "r", " ", "t", "e", "x", "t", " ", "w", "i", "t", "h", " ", "a", "n",
     "y", " ", "c", "o", "n", "t", "e", "n", "t", " ", "y", "o", "u", " ", "w", "a",
     "n", "t", "." >>

TITLE_HEAD == << "P", "a", "g", "e", " " >>

TITLE_TAIL ==
  << " ", "-", " ", "C", "l", "i", "c", "k", " ", "t", "o", " ", "E", "d", "i", "t",
     " ", "T", "i", "t", "l", "e" >>

\* f"[Edit this text - Content from page {i+1}]\n\nClick here to add ..."
PlaceholderText(n) ==
  EDIT_PREFIX \o PLACEHOLDER_MID \o IntToStr(n) \o PLACEHOLDER_TAIL

\* f"Page {page_num} - Click to Edit Title"
TitleText(page_num) == TITLE_HEAD \o IntToStr(page_num) \o TITLE_TAIL

---------------------------------------------------------------------------
(* The input: a PDF file, as the three libraries see it.                   *)
(* A page is [extractOk, text, jpegOk, pngOk, thumbOk]:                    *)
(*   extractOk  page.extract_text() returns (else it raises)               *)
(*   text       what it returns                                            *)
(*   jpegOk     image.save(path, 'JPEG') of the page's image returns       *)
(*   pngOk      image.save(path, 'PNG') returns                            *)
(*   thumbOk    Image.open / add_picture of the saved image returns        *)

TextRing ==
  << [extractOk |-> TRUE,  text |-> Rep("a", 20)],
     [extractOk |-> FALSE, text |-> << >>],
     [extractOk |-> TRUE,  text |-> << "H", "i" >>],
     [extractOk |-> TRUE,  text |-> Rep("a", 19)],
     [extractOk |-> TRUE,  text |-> << >>],
     [extractOk |-> TRUE,  text |-> << " ", " " >> \o Rep("a", 19) \o << "\n" >>],
     [extractOk |-> TRUE,  text |-> Rep(" ", 25)],
     [extractOk |-> TRUE,  text |-> Rep("a", 10) \o << "\n", "\n" >> \o Rep("b", 10)],
     [extractOk |-> TRUE,  text |-> Rep("a", 9) \o << "\n", "\n" >> \o Rep("a", 9)],
     [extractOk |-> TRUE,  text |-> Rep("a", 10) \o << "\n", " ", "\n" >> \o Rep("b", 10)],
     [extractOk |-> TRUE,  text |-> Rep("a", 10) \o << "\n", "\n", "\n" >> \o Rep("b", 10)],
     [extractOk |-> TRUE,  text |-> EDIT_PREFIX \o << " ", "o", "f", " ", "m", "i", "n", "e" >>],
     [extractOk |-> TRUE,  text |-> EDIT_PREFIX \o << "!" >>] >>

ImgPlans == {"clean", "jpeg_odd", "thumb_even", "png_last", "png_second"}

ImageAttrs(plan, k, P) ==
  [jpegOk  |-> ~ \/ (plan = "jpeg_odd" /\ k % 2 = 1)
                 \/ (plan = "png_last" /\ k = P)
                 \/ (plan = "png_second" /\ k = 2),
   pngOk   |-> ~ \/ (plan = "png_last" /\ k = P)
                 \/ (plan = "png_second" /\ k = 2),
   thumbOk |-> ~ (plan = "thumb_even" /\ k % 2 = 0)]

MakePdf(readable, P, off, plan) ==
  [readable |-> readable,
   pages |-> [k \in 1..P |->
                LET t == TextRing[((k - 1 + off) % Len(TextRing)) + 1]
                    a == ImageAttrs(plan, k, P)
                IN  [extractOk |-> t.extractOk, text |-> t.text,
                     jpegOk |-> a.jpegOk, pngOk |-> a.pngOk,
                     thumbOk |-> a.thumbOk]]]

PageCounts == (0..MaxSmallPages) \cup (MAX_PAGES..(MAX_PAGES + ExtraPages))

PdfFiles ==
  { MakePdf(TRUE, P, off, plan) :
      P \in PageCounts, off \in 0..(Len(TextRing) - 1), plan \in ImgPlans }
  \cup { MakePdf(FALSE, P, 0, "clean") : P \in {0, 2} }

NoPdf == MakePdf(FALSE, 0, 0, "clean")

---------------------------------------------------------------------------
(* convert(): helpers *)

TMP == "tmp1"

NoOutput == [exists |-> FALSE, complete |-> FALSE, slides |-> << >>]

\* get_pdf_page_count(pdf_path): the page-count probe.  The count of a
\* readable file; for an unreadable one the probe raises or reports 0.
ProbeOutcomes(f) ==
  IF f.readable
  THEN { [raised |-> FALSE, count |-> Len(f.pages)] }
  ELSE { [raised |-> FALSE, count |-> 0], [raised |-> TRUE, count |-> 0] }

\* LastPage with the last page left out when the file is under the cap
LastPageOffByOne(count, max_pages) ==
  IF count > max_pages THEN max_pages ELSE count - 1

\* LastPage without the cap
LastPageNoCap(count, max_pages) == count

\* lines 37-41
LastPage(count, max_pages) ==
  IF count > max_pages THEN max_pages ELSE count

\* line 132
PagesToProcess(n_pages, max_pages) == Min(n_pages, max_pages)

\* lines 136-144: the string appended for page p (a page record)
ExtractedText(p) ==
  IF p.extractOk THEN Strip(ReplaceDoubleNewline(p.text)) ELSE << >>

\* AppendExtracted appending nothing for a page whose extraction raised
AppendExtractedSkip(ts, p) ==
  IF p.extractOk THEN Append(ts, ExtractedText(p)) ELSE ts

\* lines 135-144: texts after the loop body ran for page p
AppendExtracted(ts, p) == Append(ts, ExtractedText(p))

\* pdf2image.convert_from_path(first_page=1, last_page=last): the images of
\* pages 1..min(last, page count), none when first_page > last_page
ConvertFromPath(f, last) ==
  [k \in 1..Min(last, Len(f.pages)) |->
     [page |-> k, jpegOk |-> f.pages[k].jpegOk, pngOk |-> f.pages[k].pngOk,
      thumbOk |-> f.pages[k].thumbOk]]

\* line 75
PageText(ts, idx) == IF idx < Len(ts) THEN ts[idx + 1] ELSE << >>

\* NeedsPlaceholder with `not page_text or` turned into `page_text and`
NeedsPlaceholderNonEmptyOnly(page_text) ==
  page_text # << >> /\ Len(Strip(page_text)) < MIN_TEXT_LEN

\* line 92
NeedsPlaceholder(page_text) ==
  page_text = << >> \/ Len(Strip(page_text)) < MIN_TEXT_LEN

\* SlideText numbering the placeholder with the 0-based loop index
SlideTextZeroBased(page_text, idx) ==
  IF NeedsPlaceholder(page_text) THEN PlaceholderText(idx) ELSE page_text

\* lines 92-94: the text handed to create_editable_text_slide
SlideText(page_text, idx) ==
  IF NeedsPlaceholder(page_text) THEN PlaceholderText(idx + 1) ELSE page_text

\* clean_extracted_text(text)
CleanExtractedText(text) == Strip(text)

\* lines 194-205: the content frame (one empty paragraph to begin with)
\* after the loop ran over paragraphs[k..]
RECURSIVE FillParagraphs(_, _, _)
FillParagraphs(paragraphs, k, frame) ==
  IF k > Len(paragraphs) THEN frame
  ELSE LET para_text == paragraphs[k]
       IN  IF Strip(para_text) # << >>
           THEN IF k - 1 = 0
                THEN FillParagraphs(paragraphs, k + 1,
                                    [frame EXCEPT ![1] = Strip(para_text)])
                ELSE FillParagraphs(paragraphs, k + 1,
                                    Append(frame, Strip(para_text)))
           ELSE FillParagraphs(paragraphs, k + 1, frame)

\* lines 180-205: the paragraphs of the content box
ContentFrame(text) ==
  IF StartsWith(text, EDIT_PREFIX)
  THEN Split(text, "\n")
  ELSE FillParagraphs(Split(CleanExtractedText(text), "\n"), 1, << << >> >>)

\* create_editable_text_slide(slide, text, image_path, page_num)
CreateEditableTextSlide(text, image, page_num) ==
  [title       |-> TitleText(page_num),
   content     |-> ContentFrame(text),
   placeholder |-> StartsWith(text, EDIT_PREFIX),
   picture     |-> IF image.thumbOk THEN image.page ELSE 0,
   label       |-> image.thumbOk]

\* Handler with mkdtemp called before the try statement
HandlerMkdtempOutsideTry(site) ==
  IF site \in {"probe", "raster", "image_save", "save"} THEN "except"
  ELSE IF site = "rmtree" THEN "cleanup_except"
  ELSE "escape"

\* Where an exception raised at a call site of convert goes: the except
\* clause of line 104, the one of line 114, or out of convert
Handler(site) ==
  IF site \in {"mkdtemp", "probe", "raster", "image_save", "save"} THEN "except"
  ELSE IF site = "rmtree" THEN "cleanup_except"
  ELSE "escape"

---------------------------------------------------------------------------
(* convert(): the state machine *)

ConvStart ==
  /\ pc = "start"
  /\ temp_dir = "None"
  /\ dirs = {}
  /\ page_count = 0
  /\ last_page = 0
  /\ texts = << >>
  /\ pages_to_process = 0
  /\ ext_i = 0
  /\ pdf_texts = << >>
  /\ images = << >>
  /\ i = 0
  /\ prs = << >>
  /\ output = NoOutput
  /\ result = "none"
  /\ log = {}
  /\ escaped = FALSE
  /\ faulted = FALSE

\* An exception raised at `site`: control goes where Handler says
Raise(site) ==
  /\ faulted' = TRUE
  /\ CASE Handler(site) = "except" ->
            /\ pc' = "except"
            /\ UNCHANGED << escaped, log >>
       [] Handler(site) = "cleanup_except" ->
            /\ pc' = "done"
            /\ log' = log \cup {"error_cleanup"}
            /\ UNCHANGED escaped
       [] OTHER ->
            /\ pc' = IF site = "rmtree" THEN "done" ELSE "finally"
            /\ escaped' = TRUE
            /\ UNCHANGED log

\* line 32: self.temp_dir = tempfile.mkdtemp()
Mkdtemp ==
  /\ pc = "start"
  /\ \/ /\ temp_dir' = TMP
        /\ dirs' = dirs \cup {TMP}
        /\ pc' = "probe"
        /\ UNCHANGED << escaped, faulted, log >>
     \/ /\ Raise("mkdtemp")
        /\ UNCHANGED << temp_dir, dirs >>
  /\ UNCHANGED << pdf, page_count, last_page, texts, pages_to_process, ext_i,
                  pdf_texts, images, i, prs, output, result >>
  /\ UNCHANGED appVars

\* lines 36-41: the page-count probe and the cap
Probe ==
  /\ pc = "probe"
  /\ \E o \in ProbeOutcomes(pdf) :
       IF o.raised
       THEN /\ Raise("probe")
            /\ UNCHANGED << page_count, last_page >>
       ELSE /\ page_count' = o.count
            /\ last_page' = LastPage(o.count, MAX_PAGES)
            /\ log' = IF o.count > MAX_PAGES
                      THEN log \cup {"warning_page_limit"} ELSE log
            /\ pc' = "extract"
            /\ UNCHANGED << escaped, faulted >>
  /\ UNCHANGED << pdf, temp_dir, dirs, texts, pages_to_process, ext_i,
                  pdf_texts, images, i, prs, output, result >>
  /\ UNCHANGED appVars

\* lines 128-132, 146-149: open the file and the reader.  That raises on
\* an unreadable file and may raise on any (an I/O error); the function
\* then ends with the empty list
ExtractOpen ==
  /\ pc = "extract"
  /\ texts' = << >>
  /\ ext_i' = 0
  /\ \/ /\ pdf.readable
        /\ pages_to_process' = PagesToProcess(Len(pdf.pages), last_page)
        /\ pc' = "extract_loop"
        /\ UNCHANGED << pdf_texts, log >>
     \/ /\ log' = log \cup {"error_reading_pdf"}
        /\ pdf_texts' = << >>
        /\ pc' = "raster"
        /\ UNCHANGED pages_to_process
  /\ UNCHANGED << pdf, temp_dir, dirs, page_count, last_page, images, i, prs,
                  output, result, escaped, faulted >>
  /\ UNCHANGED appVars

\* lines 134-144: one iteration of the extraction loop
ExtractPage ==
  /\ pc = "extract_loop"
  /\ ext_i < pages_to_process
  /\ texts' = AppendExtracted(texts, pdf.pages[ext_i + 1])
  /\ log' = IF pdf.pages[ext_i + 1].extractOk
            THEN log ELSE log \cup {"warning_extract_page"}
  /\ ext_i' = ext_i + 1
  /\ UNCHANGED << pdf, pc, temp_dir, dirs, page_count, last_page,
                  pages_to_process, pdf_texts, images, i, prs, output, result,
                  escaped, faulted >>
  /\ UNCHANGED appVars

\* line 149, line 44: return texts
ExtractReturn ==
  /\ pc = "extract_loop"
  /\ ext_i >= pages_to_process
  /\ pdf_texts' = texts
  /\ pc' = "raster"
  /\ UNCHANGED << pdf, temp_dir, dirs, page_count, last_page, texts,
                  pages_to_process, ext_i, images, i, prs, output, result, log,
                  escaped, faulted >>
  /\ UNCHANGED appVars

\* lines 48-56: rasterize pages 1..last_page (it raises on a file poppler
\* cannot read, and may raise on any)
Rasterize ==
  /\ pc = "raster"
  /\ \/ /\ images' = ConvertFromPath(pdf, last_page)
        /\ pc' = "check_images"
        /\ UNCHANGED << escaped, faulted, log >>
     \/ /\ Raise("raster")
        /\ UNCHANGED images
  /\ UNCHANGED << pdf, temp_dir, dirs, page_count, last_page, texts,
                  pages_to_process, ext_i, pdf_texts, i, prs, output, result >>
  /\ UNCHANGED appVars

\* lines 58-69
CheckImages ==
  /\ pc = "check_images"
  /\ IF images = << >>
     THEN /\ log' = log \cup {"error_no_images"}
          /\ result' = "False"
          /\ pc' = "finally"
          /\ UNCHANGED << prs, i >>
     ELSE /\ prs' = << >>
          /\ i' = 0
          /\ pc' = "compose"
          /\ UNCHANGED << log, result >>
  /\ UNCHANGED << pdf, temp_dir, dirs, page_count, last_page, texts,
                  pages_to_process, ext_i, pdf_texts, images, output, escaped,
                  faulted >>
  /\ UNCHANGED appVars

\* lines 71-96: one iteration of the slide loop
ComposeSlide ==
  /\ pc = "compose"
  /\ i < Len(images)
  /\ LET image     == images[i + 1]
         page_text == PageText(pdf_texts, i)
     IN  IF image.jpegOk \/ image.pngOk
         THEN /\ prs' = Append(prs, CreateEditableTextSlide(
                                      SlideText(page_text, i), image, i + 1))
              /\ i' = i + 1
              /\ log' = IF image.jpegOk THEN log
                        ELSE log \cup {"error_saving_image"}
              /\ UNCHANGED << pc, escaped, faulted >>
         ELSE /\ Raise("image_save")
              /\ UNCHANGED << prs, i >>
  /\ UNCHANGED << pdf, temp_dir, dirs, page_count, last_page, texts,
                  pages_to_process, ext_i, pdf_texts, images, output, result >>
  /\ UNCHANGED appVars

\* lines 98-102: prs.save(output_path); return True.  A save that raises
\* may leave a partial file behind
Save ==
  /\ pc = "compose"
  /\ i >= Len(images)
  /\ \/ /\ output' = [exists |-> TRUE, complete |-> TRUE, slides |-> prs]
        /\ result' = "True"
        /\ pc' = "finally"
        /\ UNCHANGED << escaped, faulted, log >>
     \/ /\ Raise("save")
        /\ output' \in {output, [exists |-> TRUE, complete |-> FALSE,
                                 slides |-> << >>]}
        /\ UNCHANGED result
  /\ UNCHANGED << pdf, temp_dir, dirs, page_count, last_page, texts,
                  pages_to_process, ext_i, pdf_texts, images, i, prs >>
  /\ UNCHANGED appVars

\* lines 104-106
Except ==
  /\ pc = "except"
  /\ log' = log \cup {"error_conversion"}
  /\ result' = "False"
  /\ pc' = "finally"
  /\ UNCHANGED << pdf, temp_dir, dirs, page_count, last_page, texts,
                  pages_to_process, ext_i, pdf_texts, images, i, prs, output,
                  escaped, faulted >>
  /\ UNCHANGED appVars

\* Finally with the cleanup at the end of the try body: it runs only when
\* the conversion succeeded
FinallyOnSuccessOnly ==
  /\ pc = "finally"
  /\ IF result = "True" /\ temp_dir # "None" /\ temp_dir \in dirs
     THEN dirs' = dirs \ {temp_dir}
     ELSE UNCHANGED dirs
  /\ pc' = "done"
  /\ UNCHANGED << pdf, temp_dir, page_count, last_page, texts,
                  pages_to_process, ext_i, pdf_texts, images, i, prs, output,
                  result, escaped, faulted, log >>
  /\ UNCHANGED appVars

\* lines 108-115
Finally ==
  /\ pc = "finally"
  /\ IF temp_dir # "None" /\ temp_dir \in dirs
     THEN \/ /\ dirs' = dirs \ {temp_dir}
             /\ pc' = "done"
             /\ UNCHANGED << escaped, faulted, log >>
          \/ /\ Raise("rmtree")
             /\ UNCHANGED dirs
     ELSE /\ pc' = "done"
          /\ UNCHANGED << dirs, escaped, faulted, log >>
  /\ UNCHANGED << pdf, temp_dir, page_count, last_page, texts,
                  pages_to_process, ext_i, pdf_texts, images, i, prs, output,
                  result >>
  /\ UNCHANGED appVars

AppIdle ==
  /\ now = 0
  /\ ticks = 0
  /\ files = {}
  /\ tmpdirs = {}
  /\ usedIds = {}
  /\ req = << >>
  /\ sweep = << >>

Init ==
  /\ pdf \in PdfFiles
  /\ ConvStart
  /\ AppIdle

Next ==
  \/ Mkdtemp
  \/ Probe
  \/ ExtractOpen
  \/ ExtractPage
  \/ ExtractReturn
  \/ Rasterize
  \/ CheckImages
  \/ ComposeSlide
  \/ Save
  \/ Except
  \/ Finally

Spec == Init /\ [][Next]_vars

---------------------------------------------------------------------------
(* app.py: names and paths *)

UPLOAD_FOLDER == << "u", "p", "l", "o", "a", "d", "s" >>

OUTPUT_FOLDER == << "o", "u", "t", "p", "u", "t" >>

PPTX_EXT == << ".", "p", "p", "t", "x" >>

ALLOWED_EXTENSIONS == { << "p", "d", "f" >> }

SafeChars ==
  {"a", "b", "d", "f", "p", "t", "x", "y", "A", "D", "F", "P", "_", ".", "-"}

LowerChar(c) ==
  CASE c = "A" -> "a" [] c = "D" -> "d" [] c = "F" -> "f" [] c = "P" -> "p"
    [] OTHER -> c

\* str.lower()
Lower(s) == [k \in 1..Len(s) |-> LowerChar(s[k])]

\* the index of the last '.' in s, 0 when there is none
LastDot(s) ==
  LET at == { k \in 1..Len(s) : s[k] = "." }
  IN  IF at = {} THEN 0 ELSE CHOOSE k \in at : \A m \in at : k >= m

\* s.rsplit('.', 1)[0]
RSplitHead(s) == IF LastDot(s) = 0 THEN s ELSE Slice(s, 1, LastDot(s) - 1)

\* s.rsplit('.', 1)[1], for s holding a '.'
RSplitTail(s) == Slice(s, LastDot(s) + 1, Len(s))

\* allowed_file with the extension test dropped
AllowedFileAnyExtension(filename) ==
  \E k \in 1..Len(filename) : filename[k] = "."

\* allowed_file(filename)
AllowedFile(filename) ==
  /\ \E k \in 1..Len(filename) : filename[k] = "."
  /\ Lower(RSplitTail(filename)) \in ALLOWED_EXTENSIONS

\* s.strip("._")
StripDotsUnderscores(s) ==
  LET keep == { k \in 1..Len(s) : s[k] \notin {".", "_"} }
  IN  IF keep = {} THEN << >>
      ELSE SubSeq(s, CHOOSE k \in keep : \A m \in keep : k <= m,
                     CHOOSE k \in keep : \A m \in keep : k >= m)

\* werkzeug.utils.secure_filename: runs of whitespace become one "_" (none
\* at the ends), characters outside [A-Za-z0-9_.-] are dropped, leading and
\* trailing "." and "_" are stripped
SecureFilename(s) ==
  LET t     == Strip(s)
      isWs(k) == t[k] \in Whitespace
      kept  == { k \in 1..Len(t) : ~isWs(k) \/ ~isWs(k - 1) }
      nth(j) == CHOOSE k \in kept : Cardinality({ m \in kept : m <= k }) = j
      under == [j \in 1..Cardinality(kept) |->
                  IF isWs(nth(j)) THEN "_" ELSE t[nth(j)]]
  IN  StripDotsUnderscores(SelectSeq(under, LAMBDA c : c \in SafeChars))

\* os.path.join(folder, name)
PathJoin(folder, name) == folder \o << "/" >> \o name

\* UploadName without the identifier in front
UploadNameNoId(unique_id, original_filename) == original_filename

\* line 76: f"{unique_id}_{original_filename}"
UploadName(unique_id, original_filename) ==
  unique_id \o << "_" >> \o original_filename

\* line 87: f"{unique_id}_{original_filename.rsplit('.', 1)[0]}.pptx"
OutputName(unique_id, original_filename) ==
  unique_id \o << "_" >> \o RSplitHead(original_filename) \o PPTX_EXT

\* line 45
IsOld(current_time, mtime) == current_time - mtime > SWEEP_AGE

---------------------------------------------------------------------------
(* app.py: requests *)

Requests == {"r1", "r2"}

\* str(uuid.uuid4()): values of one length, never handed out twice
Ids == { << "u", "1" >>, << "u", "2" >> }

GoodNames ==
  { << "x", " ", "y", ".", "P", "D", "F" >> }

BadNames ==
  { << >>,
    << "a", ".", "p", "d", "f", ".", "t", "x", "t" >>,
    << "a", "p", "d", "f" >> }

\* what a POST /upload carries: whether the form has a 'file' field, and
\* its filename
Uploads ==
  { [hasFile |-> TRUE, filename |-> n] : n \in GoodNames \cup BadNames }
  \cup { [hasFile |-> FALSE, filename |-> << >>] }

NewRequest(u) ==
  [pc |-> "start", hasFile |-> u.hasFile, filename |-> u.filename,
   unique_id |-> << >>, original_filename |-> << >>, filepath |-> << >>,
   output_filename |-> << >>, output_path |-> << >>,
   saved |-> FALSE, converter |-> FALSE, success |-> "none",
   exists |-> FALSE, flash |-> {}, response |-> "none", log |-> {}]

NoSweep == [pc |-> "idle", current_time |-> 0, folder |-> << >>,
            listing |-> {}, file_path |-> << >>, folders |-> << >>]

ConvIdle ==
  /\ pdf = NoPdf
  /\ ConvStart

AppInit ==
  /\ now = 0
  /\ ticks = 0
  /\ files = {}
  /\ tmpdirs = {}
  /\ usedIds = {}
  /\ req \in [Requests -> { NewRequest(u) : u \in Uploads }]
  /\ sweep = NoSweep
  /\ ConvIdle

\* the file at path, as a set of at most one record
FileAt(path) == { f \in files : f.path = path }

\* files after open(path, 'w'): a file already there is replaced
WriteFile(path, owner, complete) ==
  (files \ FileAt(path))
    \cup { [path |-> path, mtime |-> now, owner |-> owner,
            complete |-> complete] }

\* time passes
Tick ==
  /\ ticks < MaxTicks
  /\ \E d \in {SWEEP_AGE, SWEEP_AGE + 1} : now' = now + d
  /\ ticks' = ticks + 1
  /\ UNCHANGED << files, tmpdirs, usedIds, req, sweep >>
  /\ UNCHANGED convVars

\* lines 60-71: the three rejections
ReqValidate(r) ==
  /\ req[r].pc = "start"
  /\ IF ~req[r].hasFile \/ req[r].filename = << >>
     THEN req' = [req EXCEPT ![r].pc = "done",
                             ![r].flash = {"No file selected"},
                             ![r].response = "redirect"]
     ELSE IF ~AllowedFile(req[r].filename)
     THEN req' = [req EXCEPT ![r].pc = "done",
                             ![r].flash = {"Invalid file type"},
                             ![r].response = "redirect"]
     ELSE req' = [req EXCEPT ![r].pc = "save"]
  /\ UNCHANGED << now, ticks, files, tmpdirs, usedIds, sweep >>
  /\ UNCHANGED convVars

\* lines 73-81, and 113-116 when file.save raises
ReqSaveUpload(r) ==
  /\ req[r].pc = "save"
  /\ \E id \in Ids \ usedIds :
       LET original_filename == SecureFilename(req[r].filename)
           filename == UploadName(id, original_filename)
           filepath == PathJoin(UPLOAD_FOLDER, filename)
       IN  /\ usedIds' = usedIds \cup {id}
           /\ \/ /\ files' = WriteFile(filepath, r, TRUE)
                 /\ req' = [req EXCEPT ![r].pc = "convert",
                                       ![r].unique_id = id,
                                       ![r].original_filename = original_filename,
                                       ![r].filepath = filepath,
                                       ![r].saved = TRUE]
              \/ /\ UNCHANGED files
                 /\ req' = [req EXCEPT ![r].pc = "done",
                                       ![r].unique_id = id,
                                       ![r].original_filename = original_filename,
                                       ![r].filepath = filepath,
                                       ![r].log = {"Upload error"},
                                       ![r].flash = {"An unexpected error occurred"},
                                       ![r].response = "redirect"]
  /\ UNCHANGED << now, ticks, tmpdirs, sweep >>
  /\ UNCHANGED convVars

\* lines 84-90 and converter.py 30-33: the converter is made, convert is
\* called and makes its temporary directory
ReqConvertBegin(r) ==
  /\ req[r].pc = "convert"
  /\ LET output_filename == OutputName(req[r].unique_id, req[r].original_filename)
     IN  req' = [req EXCEPT ![r].pc = "converting",
                            ![r].converter = TRUE,
                            ![r].output_filename = output_filename,
                            ![r].output_path =
                               PathJoin(OUTPUT_FOLDER, output_filename)]
  /\ tmpdirs' = tmpdirs \cup {r}
  /\ UNCHANGED << now, ticks, files, usedIds, sweep >>
  /\ UNCHANGED convVars

\* converter.py 35-115 and lines 90-98: the rest of convert (Spec has it
\* step by step) and the response chosen from what it returned.  It returns
\* True after prs.save wrote output_path, False otherwise; a prs.save that
\* raised may have left a partial file; a vanished upload cannot be
\* converted; the finally block removes the temporary directory.
ReqConvertRun(r) ==
  /\ req[r].pc = "converting"
  /\ \E outcome \in IF FileAt(req[r].filepath) # {}
                    THEN {"True", "False", "FalsePartial"} ELSE {"False"} :
       /\ files' = CASE outcome = "True" ->
                          WriteFile(req[r].output_path, r, TRUE)
                     [] outcome = "FalsePartial" ->
                          WriteFile(req[r].output_path, r, FALSE)
                     [] OTHER -> files
       /\ req' = [req EXCEPT
                    ![r].pc = "finally",
                    ![r].success = IF outcome = "True" THEN "True" ELSE "False",
                    ![r].flash = IF outcome = "True"
                                 THEN {"PDF converted successfully"}
                                 ELSE {"Error converting PDF"},
                    ![r].response = IF outcome = "True"
                                    THEN "render_download" ELSE "redirect"]
  /\ tmpdirs' = tmpdirs \ {r}
  /\ UNCHANGED << now, ticks, usedIds, sweep >>
  /\ UNCHANGED convVars

\* lines 105-108: os.path.exists(filepath)
ReqCheckUpload(r) ==
  /\ req[r].pc = "finally"
  /\ req' = [req EXCEPT ![r].exists = FileAt(req[r].filepath) # {},
                        ![r].pc = IF FileAt(req[r].filepath) # {}
                                  THEN "remove" ELSE "done"]
  /\ UNCHANGED << now, ticks, files, tmpdirs, usedIds, sweep >>
  /\ UNCHANGED convVars

\* ReqRemoveUpload with the os.remove call left out
ReqRemoveUploadSkipped(r) ==
  /\ req[r].pc = "remove"
  /\ req' = [req EXCEPT ![r].pc = "done"]
  /\ UNCHANGED << now, ticks, files, tmpdirs, usedIds, sweep >>
  /\ UNCHANGED convVars

\* lines 109-111: os.remove(filepath); it raises when the file has gone
\* meanwhile, and may raise on a file that is there
ReqRemoveUpload(r) ==
  /\ req[r].pc = "remove"
  /\ \/ /\ FileAt(req[r].filepath) # {}
        /\ files' = files \ FileAt(req[r].filepath)
        /\ req' = [req EXCEPT ![r].pc = "done"]
     \/ /\ UNCHANGED files
        /\ req' = [req EXCEPT ![r].pc = "done",
                              ![r].log = @ \cup {"Error removing uploaded file"}]
  /\ UNCHANGED << now, ticks, tmpdirs, usedIds, sweep >>
  /\ UNCHANGED convVars

---------------------------------------------------------------------------
(* app.py: GET / and cleanup_old_files *)

\* os.listdir(folder): the names (here the paths) of the files in it
ListDir(folder) ==
  { f.path : f \in { g \in files : StartsWith(g.path, folder \o << "/" >>) } }

\* lines 38-40: take the time, list the first folder
SweepStart ==
  /\ sweep.pc = "idle"
  /\ sweep' = [pc |-> "scan", current_time |-> now, folder |-> UPLOAD_FOLDER,
               listing |-> ListDir(UPLOAD_FOLDER), file_path |-> << >>,
               folders |-> << OUTPUT_FOLDER >>]
  /\ UNCHANGED << now, ticks, files, tmpdirs, usedIds, req >>
  /\ UNCHANGED convVars

\* lines 40-44: the next name of the listing; a file that has gone is
\* skipped (os.path.isfile)
SweepIsFile ==
  /\ sweep.pc = "scan"
  /\ \E path \in sweep.listing :
       sweep' = [sweep EXCEPT !.listing = @ \ {path},
                              !.file_path = path,
                              !.pc = IF FileAt(path) # {} THEN "stat" ELSE "scan"]
  /\ UNCHANGED << now, ticks, files, tmpdirs, usedIds, req >>
  /\ UNCHANGED convVars

\* line 45: os.path.getmtime and the age test; getmtime raises when the
\* file has gone since isfile, and nothing in cleanup_old_files or index
\* catches that
SweepStat ==
  /\ sweep.pc = "stat"
  /\ IF FileAt(sweep.file_path) = {}
     THEN sweep' = [NoSweep EXCEPT !.pc = "failed"]
     ELSE LET f == CHOOSE g \in FileAt(sweep.file_path) : TRUE
          IN  sweep' = [sweep EXCEPT
                          !.pc = IF IsOld(sweep.current_time, f.mtime)
                                 THEN "remove" ELSE "scan"]
  /\ UNCHANGED << now, ticks, files, tmpdirs, usedIds, req >>
  /\ UNCHANGED convVars

\* lines 46-50: os.remove, its failure logged
SweepRemove ==
  /\ sweep.pc = "remove"
  /\ files' = files \ FileAt(sweep.file_path)
  /\ sweep' = [sweep EXCEPT !.pc = "scan"]
  /\ UNCHANGED << now, ticks, tmpdirs, usedIds, req >>
  /\ UNCHANGED convVars

\* line 39: the next folder, or line 55: the page is rendered
SweepNextFolder ==
  /\ sweep.pc = "scan"
  /\ sweep.listing = {}
  /\ IF sweep.folders = << >>
     THEN sweep' = NoSweep
     ELSE sweep' = [sweep EXCEPT !.folder = Head(sweep.folders),
                                 !.listing = ListDir(Head(sweep.folders)),
                                 !.folders = Tail(sweep.folders)]
  /\ UNCHANGED << now, ticks, files, tmpdirs, usedIds, req >>
  /\ UNCHANGED convVars

\* the failed GET / has answered 500; the next one can come
SweepFailed ==
  /\ sweep.pc = "failed"
  /\ sweep' = NoSweep
  /\ UNCHANGED << now, ticks, files, tmpdirs, usedIds, req >>
  /\ UNCHANGED convVars

AppNext ==
  \/ Tick
  \/ \E r \in Requests : ReqValidate(r)
  \/ \E r \in Requests : ReqSaveUpload(r)
  \/ \E r \in Requests : ReqConvertBegin(r)
  \/ \E r \in Requests : ReqConvertRun(r)
  \/ \E r \in Requests : ReqCheckUpload(r)
  \/ \E r \in Requests : ReqRemoveUpload(r)
  \/ SweepStart
  \/ SweepIsFile
  \/ SweepStat
  \/ SweepRemove
  \/ SweepNextFolder
  \/ SweepFailed

AppSpec == AppInit /\ [][AppNext]_vars

---------------------------------------------------------------------------
(* Properties of convert(), checked under Spec *)

\* the characters of s that are not whitespace
NonWs(s) == SelectSeq(s, LAMBDA c : c \notin Whitespace)

\* the paragraphs of a text frame, one after the other
RECURSIVE Concat(_)
Concat(ps) == IF ps = << >> THEN << >> ELSE Head(ps) \o Concat(Tail(ps))

\* the first line of the placeholder of page n
PlaceholderLine(n) ==
  EDIT_PREFIX \o PLACEHOLDER_MID \o IntToStr(n) \o << "]" >>

Returned == pc = "done"

ValidPdf == pdf.readable /\ Len(pdf.pages) >= 1

\* slide k of a deck is the slide of page k of the PDF
SlideOfPage(sl, k) ==
  /\ sl.title = TitleText(k)
  /\ sl.picture \in {0, k}
  /\ \/ sl.content[1] = PlaceholderLine(k)
     \/ /\ pdf.pages[k].extractOk
        /\ NonWs(Concat(sl.content)) = NonWs(pdf.pages[k].text)

\* C1: a call convert(pdf_path, output_path, max_pages=30) on a valid PDF of
\* P <= 30 pages that returns True has written a presentation of exactly P
\* slides, slide k being the slide of page k.
C1_OneSlidePerPage ==
  (Returned /\ result = "True" /\ ValidPdf /\ Len(pdf.pages) <= MAX_PAGES)
    => /\ output.exists /\ output.complete
       /\ Len(output.slides) = Len(pdf.pages)
       /\ \A k \in 1..Len(output.slides) : SlideOfPage(output.slides[k], k)

C1_Witness ==
  /\ Returned /\ result = "True" /\ ValidPdf
  /\ Len(pdf.pages) = MAX_PAGES
  /\ Len(output.slides) = MAX_PAGES
  /\ \E k \in 1..MAX_PAGES : output.slides[k].content[1] # PlaceholderLine(k)

\* C2: on a valid PDF of P > 30 pages the cap is set from the probe, with a
\* warning logged, before extraction and rasterization start; neither stage
\* touches a page beyond the 30th; the presentation written has exactly 30
\* slides, and it is written unless a library or OS call raised.
C2_CapAtThirty ==
  (ValidPdf /\ Len(pdf.pages) > MAX_PAGES)
    => /\ pc \notin {"start", "probe", "except", "finally", "done"}
            => (last_page = 30 /\ "warning_page_limit" \in log)
       /\ ext_i <= 30 /\ Len(texts) <= 30 /\ Len(pdf_texts) <= 30
       /\ Len(images) <= 30
       /\ \A k \in 1..Len(images) : images[k].page <= 30
       /\ (Returned /\ result = "True")
            => (output.exists /\ Len(output.slides) = 30
                /\ "warning_page_limit" \in log)
       /\ (Returned /\ ~faulted) => result = "True"

C2_Witness ==
  /\ Returned /\ result = "True" /\ ValidPdf
  /\ Len(pdf.pages) > MAX_PAGES
  /\ Len(output.slides) = 30
  /\ "warning_page_limit" \in log

C4_PlaceholderForShortText ==
  \A k \in 1..Len(prs) :
    (k > Len(pdf_texts) \/ Len(pdf_texts[k]) < 20)
      => /\ prs[k].content[1] = PlaceholderLine(k)
         /\ prs[k].placeholder

C4_Witness ==
  /\ Returned /\ result = "True"
  /\ Len(pdf_texts) = Len(output.slides)
  /\ \E k \in 2..Len(output.slides) :
       /\ Len(pdf_texts[k]) \in 1..19
       /\ output.slides[k].content[1] = PlaceholderLine(k)
  /\ \E k \in 2..Len(output.slides) :
       /\ ~pdf.pages[k].extractOk
       /\ output.slides[k].content[1] = PlaceholderLine(k)

\* C5: no exception leaves convert, whatever stage raised; a PDF of 0 pages
\* or an unreadable one makes it return False.
C5_FalseNotCrash ==
  /\ ~escaped
  /\ Returned => result \in {"True", "False"}
  /\ (Returned /\ (~pdf.readable \/ Len(pdf.pages) = 0)) => result = "False"

C5_Witness ==
  /\ Returned /\ ~pdf.readable /\ result = "False" /\ faulted

\* C7: every slide convert adds has a content box with a non-empty
\* paragraph: the placeholder, or paragraphs of an extracted text of at
\* least 20 characters.
C7_NonEmptyBody ==
  \A k \in 1..Len(prs) :
    /\ \E j \in 1..Len(prs[k].content) : NonWs(prs[k].content[j]) # << >>
    /\ \/ prs[k].content[1] = PlaceholderLine(k)
       \/ /\ k <= Len(pdf_texts)
          /\ Len(Strip(pdf_texts[k])) >= 20

C7_Witness ==
  /\ Returned /\ result = "True"
  /\ \E k \in 1..Len(prs) :
       /\ pdf.pages[k].extractOk
       /\ Len(pdf.pages[k].text) > 0
       /\ NonWs(pdf.pages[k].text) = << >>
  /\ \E k \in 1..Len(prs) : Len(prs[k].content) = 2 /\ ~prs[k].placeholder

---------------------------------------------------------------------------
(* Properties of app.py, checked under AppSpec *)

\* the files request r wrote that are still there
FilesOf(r) == { f \in files : f.owner = r }

\* C6: an upload without a file field, with an empty filename or with a
\* filename whose part after the last dot is not "pdf" in any case is
\* answered by a flash message and a redirect, and nothing is made for it:
\* no identifier, no uploaded file, no converter, no temporary directory.
C6_RejectedBeforeAnyWrite ==
  \A r \in Requests :
    (~req[r].hasFile \/ req[r].filename \in BadNames)
      => /\ req[r].pc \in {"start", "done"}
         /\ ~req[r].saved
         /\ ~req[r].converter
         /\ req[r].unique_id = << >>
         /\ r \notin tmpdirs
         /\ FilesOf(r) = {}
         /\ req[r].pc = "done"
              => /\ req[r].response = "redirect"
                 /\ req[r].flash \in {{"No file selected"}, {"Invalid file type"}}

C6_Witness ==
  \E r, q \in Requests :
    /\ req[r].filename = << "a", ".", "p", "d", "f", ".", "t", "x", "t" >>
    /\ req[r].pc = "done"
    /\ req[r].flash = {"Invalid file type"}
    /\ req[q].saved /\ FilesOf(q) # {} /\ q \in tmpdirs

C9_DistinctPaths ==
  /\ \A r, q \in Requests :
       (r # q /\ req[r].filepath # << >> /\ req[q].filepath # << >>)
         => req[r].filepath # req[q].filepath
  /\ \A r, q \in Requests :
       (r # q /\ req[r].output_path # << >> /\ req[q].output_path # << >>)
         => req[r].output_path # req[q].output_path
  /\ \A f \in files :
       f.path \in {req[f.owner].filepath, req[f.owner].output_path}

C9_OnlyOwnerOrOldSweep ==
  \A f \in files :
    f \notin files'
      => \/ req'[f.owner] # req[f.owner]
         \/ /\ sweep.pc = "remove" /\ sweep' # sweep
            /\ now - f.mtime > 3600

\* C9: in every interleaving of upload requests and sweeps, two requests
\* never have the same upload path or the same output path, every file is
\* at a path of the request that wrote it, and a file is replaced or
\* removed only by a step of the request that wrote it or by a sweep when
\* the file is more than 3600 seconds old.
C9_NoInterference ==
  [] C9_DistinctPaths /\ [][C9_OnlyOwnerOrOldSweep]_vars

C9_Witness ==
  \E r, q \in Requests :
    /\ r # q
    /\ req[r].original_filename = req[q].original_filename
    /\ FileAt(req[r].filepath) # {}
    /\ FileAt(req[q].filepath) # {}
    /\ req[q].pc = "converting"
    /\ sweep.pc = "remove"
    /\ sweep.file_path = req[r].filepath

=============================================================================
